---- MODULE Spec2Model ----
(***************************************************************************)
(* Model of src/simd/int.rs: the SIMD integer logarithm / power kernels    *)
(* ilog_const_base, ilog_const_base_unchecked, ilog_const_base_fast_approx,*)
(* ipow_const_coeff and the compile-time helper get_multiplier.            *)
(*                                                                         *)
(* Lane values are u32 / u64 (and u128 intermediates), which do not fit    *)
(* TLC's 32-bit integers, so every program integer is a natural   *)
(* number written as a little-endian sequence of base-2^15 digits without  *)
(* leading zero digits (zero is << >>).  Two such numbers are equal iff    *)
(* the sequences are equal.  Signed lanes (i32 / i64) are kept as their    *)
(* two's-complement bit patterns; floats (f32 / f64) as their IEEE-754     *)
(* bit patterns.                                                           *)
(***************************************************************************)
EXTENDS Integers, Sequences, FiniteSets

\* let name = val; rest: val is computed first, then the rest of the body
\* with the name bound to it
Let(val, rest(_)) == <<val, rest(val)>>[2]

(***************************************************************************)
(* Natural-number arithmetic on digit sequences.  Carries and borrows are  *)
(* computed by look-ahead rather than by recursion over the digits.        *)
(***************************************************************************)
\* a digit holds DigitBits bits, so that a product of two digits fits
\* TLC's 32-bit integers
Radix == 2^15
DigitBits == CHOOSE k \in 1..30 : 2^k = Radix

\* Not a number: the result of an operation that has none (an operation
\* whose behaviour the language leaves undefined, a division by zero).
Undef == <<-1>>

\* digit i of s, zero outside the sequence
D(s, i) == IF i >= 1 /\ i <= Len(s) THEN s[i] ELSE 0

\* the digits t without the leading (most significant) zero digits
Trim(t) ==
  IF \A i \in 1..Len(t) : t[i] = 0 THEN << >>
  ELSE SubSeq(t, 1, CHOOSE i \in 1..Len(t) :
                      t[i] # 0 /\ \A j \in (i + 1)..Len(t) : t[j] = 0)

\* the number with the digits s[1], s[2], ...
Norm(s) == Trim(s \o << >>)

\* the machine integer n (0 <= n < 2^31) as a number
N(n) == Norm(<<n % Radix, (n \div Radix) % Radix, n \div (Radix * Radix)>>)

\* the value of a as a machine integer, for a < 2^31
ToInt(a) == D(a, 1) + Radix * D(a, 2) + Radix * Radix * D(a, 3)

\* s shifted up by n digits (multiplication by Radix^n)
UpN(s, n) == IF s = << >> THEN << >> ELSE [i \in 1..n |-> 0] \o s

\* the carry into digit i of a + b
Carry(a, b, i) ==
  IF \E j \in 1..(i - 1) :
       /\ D(a, j) + D(b, j) >= Radix
       /\ \A k \in (j + 1)..(i - 1) : D(a, k) + D(b, k) >= Radix - 1
  THEN 1 ELSE 0

Add(a, b) ==
  Norm([i \in 1..((IF Len(a) > Len(b) THEN Len(a) ELSE Len(b)) + 1) |->
          (D(a, i) + D(b, i) + Carry(a, b, i)) % Radix])

\* the borrow from digit i of a - b
Borrow(a, b, i) ==
  IF \E j \in 1..(i - 1) :
       /\ D(a, j) < D(b, j)
       /\ \A k \in (j + 1)..(i - 1) : D(a, k) <= D(b, k)
  THEN 1 ELSE 0

\* a - b for a >= b
Sub(a, b) ==
  Norm([i \in 1..Len(a) |-> (D(a, i) - D(b, i) - Borrow(a, b, i) + Radix) % Radix])

Lt(a, b) ==
  \/ Len(a) < Len(b)
  \/ /\ Len(a) = Len(b)
     /\ \E i \in 1..Len(a) : a[i] < b[i] /\ \A k \in (i + 1)..Len(a) : a[k] = b[k]

Le(a, b) == ~Lt(b, a)

\* a * d for one digit d: the low and the high halves of the digit products
MulSmall(a, d) ==
  Add(Norm([i \in 1..Len(a) |-> (a[i] * d) % Radix]),
      UpN(Norm([i \in 1..Len(a) |-> (a[i] * d) \div Radix]), 1))

\* the sum of a * b[j] * Radix^(j-1) for j in lo..hi
RECURSIVE MulRange(_, _, _, _)
MulRange(a, b, lo, hi) ==
  IF lo = hi THEN UpN(MulSmall(a, b[lo]), lo - 1)
  ELSE Let(MulRange(a, b, lo, (lo + hi) \div 2), LAMBDA l :
       Let(MulRange(a, b, ((lo + hi) \div 2) + 1, hi), LAMBDA h : Add(l, h)))

Mul(a, b) == IF a = << >> \/ b = << >> THEN << >> ELSE MulRange(a, b, 1, Len(b))

\* 2^k
Pow2(k) == UpN(<<2^(k % DigitBits)>>, k \div DigitBits)

\* a << k and a >> k on unbounded naturals
ShlNat(a, k) ==
  UpN(Norm([i \in 1..(Len(a) + 1) |->
             ((D(a, i) * 2^(k % DigitBits)) % Radix)
               + ((D(a, i - 1) * 2^(k % DigitBits)) \div Radix)]),
      k \div DigitBits)

ShrNat(a, k) ==
  IF Len(a) <= k \div DigitBits THEN << >>
  ELSE
  Norm([i \in 1..(Len(a) - (k \div DigitBits)) |->
          (D(a, i + (k \div DigitBits)) \div 2^(k % DigitBits))
            + ((D(a, i + (k \div DigitBits) + 1) % 2^(k % DigitBits))
                 * 2^(DigitBits - (k % DigitBits)))])

\* a mod 2^k
ModPow2(a, k) ==
  IF Len(a) <= k \div DigitBits THEN a
  ELSE Norm(SubSeq(a, 1, k \div DigitBits)
              \o <<a[(k \div DigitBits) + 1] % (2^(k % DigitBits))>>)

\* number of significant bits of a machine integer
IntBitLen(d) == CHOOSE n \in 0..31 : (n = 31 \/ d < 2^n) /\ (n = 0 \/ d >= 2^(n - 1))

\* number of significant bits; BitLen(a) - 1 = floor(log2(a)) for a >= 1
BitLen(a) ==
  IF a = << >> THEN 0 ELSE DigitBits * (Len(a) - 1) + IntBitLen(a[Len(a)])

\* bit j of a (bit 0 is the least significant)
Bit(a, j) == (D(a, (j \div DigitBits) + 1) \div (2^(j % DigitBits))) % 2

\* The quotient digit of cur / b, for cur < b * Radix and a divisor b whose
\* top digit has its top bit set: the estimate from the two top digits of
\* cur and the top digit of b is at most 2 too large.
QDigit(cur, b) ==
  Let((D(cur, Len(b) + 1) * Radix + D(cur, Len(b))) \div b[Len(b)], LAMBDA est :
  Let(IF est >= Radix THEN Radix - 1 ELSE est, LAMBDA q :
      IF Le(MulSmall(b, q), cur) THEN q
      ELSE IF Le(MulSmall(b, q - 1), cur) THEN q - 1
      ELSE q - 2))

\* one step of the long division: digit i of a is brought down to the
\* remainder st.r (st.r < b); st.q holds the quotient digits above i
DivStep(a, b, i, st) ==
  Let(Norm(<<a[i]>> \o st.r), LAMBDA cur :
  Let(QDigit(cur, b), LAMBDA d :
      [q |-> <<d>> \o st.q, r |-> Sub(cur, MulSmall(b, d))]))

\* the steps for the digits hi down to lo, the upper half first
RECURSIVE DivRange(_, _, _, _, _)
DivRange(a, b, lo, hi, st) ==
  IF lo = hi THEN DivStep(a, b, lo, st)
  ELSE Let(DivRange(a, b, ((lo + hi) \div 2) + 1, hi, st), LAMBDA upper :
           DivRange(a, b, lo, (lo + hi) \div 2, upper))

\* floor(a / b) for b >= 1: both are scaled by the power of two that sets
\* the top bit of the divisor's top digit
Div(a, b) ==
  IF a = << >> THEN << >>
  ELSE
  Let(ShlNat(a, DigitBits - IntBitLen(b[Len(b)])), LAMBDA an :
  Let(ShlNat(b, DigitBits - IntBitLen(b[Len(b)])), LAMBDA bn :
      Norm(DivRange(an, bn, 1, Len(an), [q |-> << >>, r |-> << >>]).q)))

\* b^e by repeated squaring
RECURSIVE Pow(_, _)
Pow(b, e) ==
  IF e = 0 THEN <<1>>
  ELSE Let(Pow(b, e \div 2), LAMBDA h :
       Let(Mul(h, h), LAMBDA s : IF e % 2 = 0 THEN s ELSE Mul(s, b)))

\* the k with b^k <= n < b^(k+1), for n >= 1 and b >= 2 (integer ilog)
RECURSIVE Ilog(_, _)
Ilog(n, b) ==
  IF Lt(n, b) THEN 0
  ELSE Let(2 * Ilog(n, Mul(b, b)), LAMBDA k2 :
           IF Le(Pow(b, k2 + 1), n) THEN k2 + 1 ELSE k2)

(***************************************************************************)
(* Machine integers of the two instantiations of unsigned_impl!:           *)
(* (u32, i32, f32, 23) and (u64, i64, f64, 52).  W is <$u>::BITS.          *)
(***************************************************************************)
Widths == {32, 64}

mant_bits(W) == IF W = 32 THEN 23 ELSE 52

\* The const generics BASE / COEFF (u32) the functions are instantiated with:
\* every small value, and values at the edges of the u16, i32 and u32 ranges.
MaxBase == 10
Bases ==
  {N(b) : b \in 0..MaxBase}
    \cup {N(15), N(16), N(65535), Pow2(16), Pow2(31), Sub(Pow2(32), <<1>>)}

\* <$u>::MAX and <$s>::MAX
UMAX(W) == Sub(Pow2(W), <<1>>)
SMAX(W) == Sub(Pow2(W - 1), <<1>>)

\* wrapping +, -, * on $u (and, on bit patterns, on $s)
WAdd(W, a, b) == ModPow2(Add(a, b), W)
WSub(W, a, b) == ModPow2(Add(a, Sub(Pow2(W), b)), W)
WMul(W, a, b) == ModPow2(Mul(a, b), W)

\* the sign bit of a lane read as $s
IsNeg(W, a) == Bit(a, W - 1) = 1
\* order-preserving map from signed lanes to naturals
Biased(W, a) == ModPow2(Add(a, Pow2(W - 1)), W)
SLt(W, a, b) == Lt(Biased(W, a), Biased(W, b))
SGe(W, a, b) == ~SLt(W, a, b)
SGt(W, a, b) == SLt(W, b, a)

\* the mask lane value -1 (all bits set) for true, 0 for false
MaskInt(W, t) == IF t THEN UMAX(W) ELSE << >>

(***************************************************************************)
(* f32 / f64 as bit patterns: sign, biased exponent, mant_bits of fraction.*)
(***************************************************************************)
\* the exponent bias, (1 << (size_of::<$f>() * 8 - 2 - $mant_bits)) - 1
exp_bias(W) == 2^(W - 2 - mant_bits(W)) - 1

\* the significand q0 of mant_bits + 1 bits rounded to nearest, ties to
\* even, given the bits r dropped below it and the value half of the
\* highest dropped bit
round_nearest_even(q0, r, half) ==
  IF Lt(half, r) \/ (r = half /\ Bit(q0, 0) = 1) THEN Add(q0, <<1>>) ELSE q0

\* `as $f` / cast::<$f>() of a signed lane: round to nearest, ties to even.
\* m is the magnitude and sh the number of bits dropped from it; the
\* significand carries the implicit leading one, so that a carry out of the
\* fraction moves into the exponent field.
int_to_float(W, s) ==
  Let(IF IsNeg(W, s) THEN Sub(Pow2(W), s) ELSE s, LAMBDA m :
  Let(BitLen(m) - 1 - mant_bits(W), LAMBDA sh :
  Let(IF sh <= 0 THEN ShlNat(m, -sh) ELSE ShrNat(m, sh), LAMBDA q0 :
  Let(IF sh <= 0 THEN << >> ELSE Sub(m, ShlNat(q0, sh)), LAMBDA r :
  Let(round_nearest_even(q0, r, IF sh <= 0 THEN <<1>> ELSE Pow2(sh - 1)), LAMBDA q :
      IF m = << >> THEN << >>
      ELSE Add(IF IsNeg(W, s) THEN Pow2(W - 1) ELSE << >>,
               Add(ShlNat(N(BitLen(m) + exp_bias(W) - 2), mant_bits(W)), q)))))))

\* the magnitude of a finite float, truncated toward zero; ef is the
\* exponent field and sig the significand with its leading one
float_trunc(W, f) ==
  Let(ToInt(ShrNat(ModPow2(f, W - 1), mant_bits(W))), LAMBDA ef :
  Let(Add(ModPow2(f, mant_bits(W)), Pow2(mant_bits(W))), LAMBDA sig :
      IF ef = 0 \/ ef < exp_bias(W) THEN << >>
      ELSE IF ef - exp_bias(W) >= mant_bits(W)
      THEN ShlNat(sig, ef - exp_bias(W) - mant_bits(W))
      ELSE ShrNat(sig, mant_bits(W) - (ef - exp_bias(W)))))

\* to_int_unchecked::<$s>(): undefined unless the truncated value fits $s
to_int_unchecked(W, f) ==
  Let(float_trunc(W, f), LAMBDA mag :
      IF IsNeg(W, f)
      THEN (IF Le(mag, Pow2(W - 1)) THEN ModPow2(Sub(Pow2(W), mag), W) ELSE Undef)
      ELSE (IF Le(mag, SMAX(W)) THEN mag ELSE Undef))

(***************************************************************************)
(* ilog_const_base_unchecked, BASE == 2 branch, one lane.                  *)
(***************************************************************************)
UNSIGNED_LOG2(W) == N(W - 1)

\* <$f>::from_bits(((<$s>::MAX) as $f).to_bits() - 1) as $s
safe_conv_max(W) ==
  Let(int_to_float(W, SMAX(W)), LAMBDA max :
  Let(Sub(max, <<1>>), LAMBDA below : float_trunc(W, below)))

\* self.cast::<$s>().simd_min(Simd::splat(safe_conv_max))
signed_clamped(W, x) ==
  Let(safe_conv_max(W), LAMBDA max : IF SLt(W, x, max) THEN x ELSE max)

\* Mask::from_int_unchecked(signed >> UNSIGNED_LOG2)
unsigned_mask(W, signed) == IsNeg(W, signed)

\* a base-2 path without the correction of an upward rounding
greater_modifier_dropped(W, converted, signed) == << >>

\* converted.simd_gt(signed).to_int()
greater_modifier(W, converted, signed) == MaskInt(W, SGt(W, converted, signed))

\* ((float.to_bits() + greater_modifier) as $u >> mant_bits) - bias
exponent(W, float, modifier) ==
  Let(WAdd(W, float, modifier), LAMBDA sum :
      WSub(W, ShrNat(sum, mant_bits(W)), N(exp_bias(W))))

ilog2_lane(W, x) ==
  Let(signed_clamped(W, x), LAMBDA signed :
  Let(int_to_float(W, signed), LAMBDA float :
  Let(to_int_unchecked(W, float), LAMBDA converted :
      IF converted = Undef THEN Undef
      ELSE IF unsigned_mask(W, signed) THEN UNSIGNED_LOG2(W)
      ELSE Let(greater_modifier(W, converted, signed), LAMBDA modifier :
               exponent(W, float, modifier)))))

(***************************************************************************)
(* get_multiplier: the two loops as single steps on the local variables    *)
(* <<x, result, z, b>>, and the function as their composition.             *)
(***************************************************************************)
PRECISION == 32

\* an entry that leaves the base unscaled
gm_entry_unscaled(base) ==
  [x |-> base, result |-> << >>, z |-> << >>, b |-> << >>]

\* let mut result = 0_u64; let mut x = (base as u64) << PRECISION;
gm_entry(base) ==
  [x |-> ModPow2(ShlNat(base, PRECISION), 64), result |-> << >>,
   z |-> << >>, b |-> << >>]

\* while x >= (2 << PRECISION)
gm_reduce_cond(l) == Le(ShlNat(<<2>>, PRECISION), l.x)

\* x >>= 1; result += 1 << PRECISION;
gm_reduce_step(l) ==
  [l EXCEPT !.x = ShrNat(l.x, 1),
            !.result = ModPow2(Add(l.result, ShlNat(<<1>>, PRECISION)), 64)]

\* let mut z = x as u128; let mut b = 1_u64 << (PRECISION - 1);
gm_refine_entry(l) == [l EXCEPT !.z = l.x, !.b = ShlNat(<<1>>, PRECISION - 1)]

\* while b != 0
gm_refine_cond(l) == l.b # << >>

\* z = (z * z) >> PRECISION;
gm_square(l) == ShrNat(ModPow2(Mul(l.z, l.z), 128), PRECISION)

\* if z >= (2 << PRECISION) { z >>= 1; result += b }  b >>= 1;
gm_refine_step(l) ==
  Let(gm_square(l), LAMBDA z :
      IF Le(ShlNat(<<2>>, PRECISION), z)
      THEN [l EXCEPT !.z = ShrNat(z, 1),
                     !.result = ModPow2(Add(l.result, l.b), 64),
                     !.b = ShrNat(l.b, 1)]
      ELSE [l EXCEPT !.z = z, !.b = ShrNat(l.b, 1)])

\* (((numerator as u128) << PRECISION) / (result as u128)) as u64;
\* Undef stands for the division by zero
gm_divide(num, l) ==
  IF l.result = << >> THEN Undef
  ELSE Let(ShlNat(num, PRECISION), LAMBDA n :
       Let(Div(n, l.result), LAMBDA q : ModPow2(q, 64)))

\* Both loops halve a u64 (x, b) until it falls below a threshold, so each
\* runs at most 64 times: the while loops are 64 guarded iterations, split in
\* halves to keep the evaluation shallow.
RECURSIVE gm_reduce_loop(_, _)
gm_reduce_loop(l, n) ==
  IF n = 1 THEN (IF gm_reduce_cond(l) THEN gm_reduce_step(l) ELSE l)
  ELSE Let(gm_reduce_loop(l, n \div 2), LAMBDA h :
           IF gm_reduce_cond(h) THEN gm_reduce_loop(h, n - (n \div 2)) ELSE h)

RECURSIVE gm_refine_loop(_, _)
gm_refine_loop(l, n) ==
  IF n = 1 THEN (IF gm_refine_cond(l) THEN gm_refine_step(l) ELSE l)
  ELSE Let(gm_refine_loop(l, n \div 2), LAMBDA h :
           IF gm_refine_cond(h) THEN gm_refine_loop(h, n - (n \div 2)) ELSE h)

get_multiplier(num, base) ==
  Let(gm_entry(base), LAMBDA entry :
  Let(gm_reduce_loop(entry, 64), LAMBDA reduced :
  Let(gm_refine_entry(reduced), LAMBDA start :
  Let(gm_refine_loop(start, 64), LAMBDA refined :
      gm_divide(num, refined)))))

(***************************************************************************)
(* u32 arithmetic on the const generics BASE and COEFF.  Whether an        *)
(* overflowing u32::pow panics or wraps is a property of the build         *)
(* (overflow checks on or off).                                            *)
(***************************************************************************)
Overflow == <<-2>>

\* BASE.pow(e) / COEFF.pow(e) on u32
u32_pow(b, e, checks) ==
  Let(Pow(b, e), LAMBDA p :
      IF Lt(p, Pow2(32)) THEN p
      ELSE IF checks THEN Overflow
      ELSE ModPow2(p, 32))

(***************************************************************************)
(* Results of a call: a vector, a panic with its message, or undefined     *)
(* behaviour.                                                              *)
(***************************************************************************)
Ok(val)    == [kind |-> "ok", val |-> val, msg |-> ""]
Panic(msg) == [kind |-> "panic", val |-> << >>, msg |-> msg]
UB         == [kind |-> "ub", val |-> << >>, msg |-> ""]
Pending    == [kind |-> "pending", val |-> << >>, msg |-> ""]

\* a vector given lane by lane
Vector(f) == f \o << >>

\* lift a lane-wise result that may be Undef to the vector
Lanes(val) == IF \E i \in DOMAIN val : val[i] = Undef THEN UB ELSE Ok(val)

(***************************************************************************)
(* ipow_const_coeff::<COEFF>                                               *)
(***************************************************************************)
\* n.next_power_of_two().ilog2() for a machine integer n >= 1
next_power_of_two_ilog2(n) == CHOOSE k \in 0..31 : 2^k >= n /\ (k = 0 \/ 2^(k - 1) < n)

\* <$u>::MAX.ilog(COEFF as $u).next_power_of_two().ilog2()
bit_count(W, COEFF) == next_power_of_two_ilog2(Ilog(UMAX(W), COEFF))

\* COEFF.pow(bit as u32) as $u for the bit positions 0 .. n-1
pow_factors(COEFF, n, checks) ==
  Vector([i \in 1..n |-> u32_pow(COEFF, 2^(i - 1), checks)])

\* result after the loop iterations for bit positions 0 .. j-1;
\* factors[j] is COEFF.pow(bit) of bit position j - 1
RECURSIVE pow_loop(_, _, _, _)
pow_loop(W, factors, x, j) ==
  IF j = 0 THEN <<1>>
  ELSE Let(pow_loop(W, factors, x, j - 1), LAMBDA result :
           WMul(W, result, IF Bit(x, j - 1) = 1 THEN factors[j] ELSE <<1>>))

\* a shift of one instead of two: 2^x
shl_one(W, x) == ModPow2(ShlNat(<<1>>, ToInt(ModPow2(x, IntBitLen(W) - 1))), W)

\* Simd::splat(2) << self: the lane shift amount is taken modulo the width
shl_two(W, x) == ModPow2(ShlNat(<<2>>, ToInt(ModPow2(x, IntBitLen(W) - 1))), W)

ipow_const_coeff(W, COEFF, v, checks) ==
  IF Lt(ModPow2(UMAX(W), 32), COEFF) THEN Panic("invalid coefficient")
  ELSE IF COEFF = << >>
  THEN Ok(Vector([i \in DOMAIN v |-> IF v[i] = << >> THEN <<1>> ELSE << >>]))
  ELSE IF COEFF = <<1>> THEN Ok(Vector([i \in DOMAIN v |-> <<1>>]))
  ELSE IF COEFF = <<2>> THEN Ok(Vector([i \in DOMAIN v |-> shl_two(W, v[i])]))
  ELSE Let(pow_factors(COEFF, bit_count(W, COEFF), checks), LAMBDA factors :
           IF \E j \in DOMAIN factors : factors[j] = Overflow
           THEN Panic("attempt to multiply with overflow")
           ELSE Ok(Vector([i \in DOMAIN v |->
                            pow_loop(W, factors, v[i], Len(factors))])))

(***************************************************************************)
(* ilog_const_base_fast_approx::<BASE>                                     *)
(***************************************************************************)
\* (<$u>::MAX / (<$u>::MAX.ilog2() as $u + 1)) + 1
numerator(W) == Add(Div(UMAX(W), N((BitLen(UMAX(W)) - 1) + 1)), <<1>>)

\* a shift one bit too long
shift_one_more(W) == BitLen(numerator(W))

\* numerator.ilog2()
shift(W) == BitLen(numerator(W)) - 1

\* get_multiplier(numerator as u64, BASE) as $u
multiplier(W, BASE) ==
  Let(numerator(W), LAMBDA num :
  Let(get_multiplier(num, BASE), LAMBDA m :
      IF m = Undef THEN Undef ELSE ModPow2(m, W)))

\* ((log2 + Simd::splat(1)) * Simd::splat(multiplier)) >> Simd::splat(shift)
approx_lane(W, lg, mul, s) == ShrNat(WMul(W, WAdd(W, lg, <<1>>), mul), s)

ilog_const_base_fast_approx(W, BASE, v) ==
  Let(shift(W), LAMBDA sh :
  Let(multiplier(W, BASE), LAMBDA m :
      IF m = Undef THEN Panic("attempt to divide by zero")
      ELSE Let(Vector([i \in DOMAIN v |-> ilog2_lane(W, v[i])]), LAMBDA log2 :
               IF \E i \in DOMAIN v : log2[i] = Undef THEN UB
               ELSE Ok(Vector([i \in DOMAIN v |-> approx_lane(W, log2[i], m, sh)])))))

(***************************************************************************)
(* ilog_const_base_unchecked::<BASE> and ilog_const_base::<BASE>           *)
(***************************************************************************)
\* if BASE as $u > <$s>::MAX as $u { 0 } else { <$s>::MAX.ilog(BASE as $s) }
max_signed(W, BASE) == IF Lt(SMAX(W), BASE) THEN 0 ELSE Ilog(SMAX(W), BASE)

\* <$u>::MAX.ilog(BASE as $u)
max_unsigned(W, BASE) == Ilog(UMAX(W), BASE)

\* BASE.pow(i) for i in 1..=max_unsigned.  BASE.pow(i) as $s and as $u:
\* u32 -> i32 keeps the bits, u32 -> i64 / u64 zero-extends, so the lane
\* pattern is the u32 value.
ladder_pows(W, BASE, checks) ==
  Vector([i \in 1..max_unsigned(W, BASE) |-> u32_pow(BASE, i, checks)])

\* one lane of the two loops, for ms == max_signed and pows[i] == BASE.pow(i):
\*   result = (x_signed >> (BITS - 1)).cast::<$u>() & Simd::splat(max_signed)
\*   for i in 1..=max_signed: result += x_signed.simd_ge(BASE.pow(i) as $s)
\*   for i in (max_signed + 1)..=max_unsigned: result += self.simd_ge(...)
ladder_lane(W, x, ms, pows) ==
  WAdd(W, IF IsNeg(W, x) THEN N(ms) ELSE << >>,
          N(Cardinality({i \in 1..ms : SGe(W, x, pows[i])})
              + Cardinality({i \in (ms + 1)..Len(pows) : Le(pows[i], x)})))

\* the branch 3 <= BASE <= 7: the estimate, corrected by one where its power
\* exceeds the lane
ilog_corrected(W, BASE, v, checks) ==
  Let(ilog_const_base_fast_approx(W, BASE, v), LAMBDA min_digits :
      IF min_digits.kind # "ok" THEN min_digits
      ELSE Let(ipow_const_coeff(W, BASE, min_digits.val, checks), LAMBDA pw :
               IF pw.kind # "ok" THEN pw
               ELSE Ok(Vector([i \in DOMAIN v |->
                         WAdd(W, min_digits.val[i],
                              MaskInt(W, Lt(v[i], pw.val[i])))]))))

\* the branch BASE >= 8
ilog_ladder(W, BASE, v, checks) ==
  Let(max_signed(W, BASE), LAMBDA ms :
  Let(ladder_pows(W, BASE, checks), LAMBDA pows :
      IF \E i \in DOMAIN pows : pows[i] = Overflow
      THEN Panic("attempt to multiply with overflow")
      ELSE Ok(Vector([i \in DOMAIN v |-> ladder_lane(W, v[i], ms, pows)]))))

ilog_const_base_unchecked(W, BASE, v, checks) ==
  IF BASE = << >> \/ BASE = <<1>> \/ Lt(UMAX(W), BASE) THEN Panic("invalid base")
  ELSE IF BASE = <<2>> THEN Lanes(Vector([i \in DOMAIN v |-> ilog2_lane(W, v[i])]))
  ELSE IF Le(BASE, <<7>>) THEN ilog_corrected(W, BASE, v, checks)
  ELSE ilog_ladder(W, BASE, v, checks)

ilog_const_base(W, BASE, v, checks) ==
  IF \E i \in DOMAIN v : v[i] = << >> THEN Panic("invalid input: 0")
  ELSE ilog_const_base_unchecked(W, BASE, v, checks)

(***************************************************************************)
(* The calls.  A call picks an instantiation (width, BASE or COEFF) and a  *)
(* vector of LANES lanes, and leaves its outcome in ret.  get_multiplier   *)
(* is also run statement by statement on its local variables.              *)
(***************************************************************************)
LANES == 8
\* how many of the lowest and of the highest exponents k of a base are
\* sampled as lanes B^k - 1, B^k
EdgeExps == 2

\* lanes 2^k - 1 and 2^k for k in lo..W (2^W itself is not a lane)
BitSamples(W, lo) ==
  Vector([j \in 1..(2 * (W - lo) + 1) |->
            IF j % 2 = 1 THEN Sub(Pow2(lo + (j \div 2)), <<1>>)
            ELSE Pow2(lo + (j \div 2) - 1)])

\* the exponents k >= 1 of B sampled, top being the largest whose power fits
SampledExps(top) == {k \in 1..top : k <= EdgeExps \/ k > top - EdgeExps}

\* lanes B^k - 1 and B^k, by increasing k
RECURSIVE PowerSamples(_, _)
PowerSamples(B, exps) ==
  IF exps = {} THEN << >>
  ELSE Let(CHOOSE i \in exps : \A j \in exps : i <= j, LAMBDA k :
       Let(Pow(B, k), LAMBDA p :
           <<Sub(p, <<1>>), p>> \o PowerSamples(B, exps \ {k})))

\* the lanes of the logarithm calls: small values, the values around the
\* float conversion's clamp, powers of two from bit lo up, powers of the base
LogSamples(W, B, lo) ==
  Let(safe_conv_max(W), LAMBDA max :
      <<N(1), N(2), N(3), max, Add(max, <<1>>)>>
        \o BitSamples(W, lo)
        \o (IF Lt(B, <<2>>) THEN << >>
            ELSE PowerSamples(B, SampledExps(Ilog(UMAX(W), B)))))

\* the lanes of the power calls: every exponent up to one past the largest
\* whose power fits the lane (up to one past the width for C < 3), and the
\* largest lane
PowSamples(W, C) ==
  Vector([j \in 1..((IF Lt(C, <<3>>) THEN W ELSE Ilog(UMAX(W), C)) + 2) |-> N(j - 1)])
    \o <<UMAX(W)>>

\* the vectors that cut a sequence of lanes into LANES at a time (the last
\* one wraps around)
Window(lanes, k) ==
  Vector([i \in 1..LANES |-> lanes[(((k - 1) * LANES + i - 1) % Len(lanes)) + 1]])

Vectors(lanes) ==
  {Window(lanes, k) : k \in 1..((Len(lanes) + LANES - 1) \div LANES)}

\* the first vector with its first or its last lane zeroed
ZeroVectors(lanes) ==
  Let(Window(lanes, 1), LAMBDA first : {[first EXCEPT ![i] = << >>] : i \in {1, LANES}})

\* the input vectors of a logarithm call
LogVectors(W, B, lo) ==
  Let(LogSamples(W, B, lo), LAMBDA lanes : Vectors(lanes) \cup ZeroVectors(lanes))

\* the numerators get_multiplier is called with: that of the instantiation
\* of a width, and the ends of the u64 range
Numerators(W) == {numerator(W), <<1>>, UMAX(64)}

\* get_multiplier's local variables before a call
gm_idle ==
  [pc |-> "idle", numerator |-> << >>, x |-> << >>, result |-> << >>,
   z |-> << >>, b |-> << >>, reductions |-> 0, refinements |-> 0]

VARIABLES
  overflow_checks,  \* the build: do overflowing integer operations panic?
  fn,               \* the function called, "idle" between calls
  width,            \* the lane width of the instantiation
  const,            \* the const generic BASE / COEFF (get_multiplier: base)
  self,             \* the input vector
  log_of,           \* for a power of a logarithm: the logarithm's input
  ret,              \* the outcome of the call
  gm                \* get_multiplier run stepwise: position, locals, counts

vars == <<overflow_checks, fn, width, const, self, log_of, ret, gm>>

Init ==
  /\ overflow_checks \in BOOLEAN
  /\ fn = "idle"
  /\ width = 32
  /\ const = << >>
  /\ self = << >>
  /\ log_of = << >>
  /\ ret = Pending
  /\ gm = gm_idle

\* The inputs of a call are recorded and the outcome is ret
Call(f, W, B, v, outcome) ==
  /\ fn' = f
  /\ width' = W
  /\ const' = B
  /\ self' = v
  /\ log_of' = << >>
  /\ ret' = outcome
  /\ UNCHANGED <<overflow_checks, gm>>

\* Simd<$u, LANES>::ilog_const_base::<BASE>(self)
Call_ilog_const_base ==
  /\ fn = "idle"
  /\ \E W \in Widths, B \in Bases :
       \E v \in LogVectors(W, B, mant_bits(W)) :
         Call("ilog_const_base", W, B, v, ilog_const_base(W, B, v, overflow_checks))

\* Simd<$u, LANES>::ilog_const_base_unchecked::<BASE>(self)
Call_ilog_const_base_unchecked ==
  /\ fn = "idle"
  /\ \E W \in Widths, B \in Bases :
       \E v \in LogVectors(W, B, mant_bits(W)) :
         Call("ilog_const_base_unchecked", W, B, v,
              ilog_const_base_unchecked(W, B, v, overflow_checks))

\* Simd<$u, LANES>::ilog_const_base_fast_approx::<BASE>(self)
Call_ilog_const_base_fast_approx ==
  /\ fn = "idle"
  /\ \E W \in Widths, B \in Bases :
       \E v \in LogVectors(W, B, 0) :
         Call("ilog_const_base_fast_approx", W, B, v,
              ilog_const_base_fast_approx(W, B, v))

\* Simd<$u, LANES>::ipow_const_coeff::<COEFF>(self)
Call_ipow_const_coeff ==
  /\ fn = "idle"
  /\ \E W \in Widths, C \in Bases :
       \E v \in Vectors(PowSamples(W, C)) :
         Call("ipow_const_coeff", W, C, v, ipow_const_coeff(W, C, v, overflow_checks))

\* x.ilog_const_base::<C>().ipow_const_coeff::<C>(): the power of a returned
\* logarithm, with the same constant
Compose_ipow_const_coeff ==
  /\ fn = "ilog_const_base"
  /\ ret.kind = "ok"
  /\ fn' = "ipow_const_coeff"
  /\ self' = ret.val
  /\ log_of' = self
  /\ ret' = ipow_const_coeff(width, const, ret.val, overflow_checks)
  /\ UNCHANGED <<overflow_checks, width, const, gm>>

\* get_multiplier(numerator, base), up to the first loop
Call_get_multiplier ==
  /\ fn = "idle"
  /\ \E W \in Widths, base \in Bases :
       \E num \in Numerators(W) :
         /\ fn' = "get_multiplier"
         /\ const' = base
         /\ gm' = [gm_idle EXCEPT !.pc = "reduce", !.numerator = num,
                                  !.x = gm_entry(base).x]
  /\ UNCHANGED <<overflow_checks, width, self, log_of, ret>>

\* the locals of get_multiplier as the record the step operators work on
gm_locals == [x |-> gm.x, result |-> gm.result, z |-> gm.z, b |-> gm.b]

gm_store(l, pc) ==
  [gm EXCEPT !.pc = pc, !.x = l.x, !.result = l.result, !.z = l.z, !.b = l.b]

\* one iteration of: while x >= (2 << PRECISION) { ... }
gm_reduce ==
  /\ gm.pc = "reduce"
  /\ gm_reduce_cond(gm_locals)
  /\ gm' = [gm_store(gm_reduce_step(gm_locals), "reduce")
              EXCEPT !.reductions = gm.reductions + 1]
  /\ UNCHANGED <<overflow_checks, fn, width, const, self, log_of, ret>>

\* the first loop exits; let mut z = ...; let mut b = ...;
gm_enter_refine ==
  /\ gm.pc = "reduce"
  /\ ~gm_reduce_cond(gm_locals)
  /\ gm' = gm_store(gm_refine_entry(gm_locals), "refine")
  /\ UNCHANGED <<overflow_checks, fn, width, const, self, log_of, ret>>

\* one iteration of: while b != 0 { ... }
gm_refine ==
  /\ gm.pc = "refine"
  /\ gm_refine_cond(gm_locals)
  /\ gm' = [gm_store(gm_refine_step(gm_locals), "refine")
              EXCEPT !.refinements = gm.refinements + 1]
  /\ UNCHANGED <<overflow_checks, fn, width, const, self, log_of, ret>>

\* the outcome of the final division
gm_outcome(q) == IF q = Undef THEN Panic("attempt to divide by zero") ELSE Ok(<<q>>)

\* the second loop exits; the final division and the return
gm_return ==
  /\ gm.pc = "refine"
  /\ ~gm_refine_cond(gm_locals)
  /\ gm' = [gm EXCEPT !.pc = "done"]
  /\ ret' = gm_outcome(gm_divide(gm.numerator, gm_locals))
  /\ UNCHANGED <<overflow_checks, fn, width, const, self, log_of>>

\* the caller takes the outcome; the next call may start
Return ==
  /\ fn # "idle"
  /\ fn = "get_multiplier" => gm.pc = "done"
  /\ fn' = "idle"
  /\ width' = 32
  /\ const' = << >>
  /\ self' = << >>
  /\ log_of' = << >>
  /\ ret' = Pending
  /\ gm' = gm_idle
  /\ UNCHANGED overflow_checks

Next ==
  \/ Call_ipow_const_coeff
  \/ Call_get_multiplier
  \/ Call_ilog_const_base_unchecked
  \/ Call_ilog_const_base_fast_approx
  \/ Call_ilog_const_base
  \/ Compose_ipow_const_coeff
  \/ gm_reduce
  \/ gm_enter_refine
  \/ gm_refine
  \/ gm_return
  \/ Return

Spec == Init /\ [][Next]_vars

(***************************************************************************)
(* The claims.  ret is the outcome of the call of fn with the constant     *)
(* const on the vector self, in the instantiation of width bits.           *)
(***************************************************************************)
\* the call has no zero lane
NoZeroLane == \A i \in DOMAIN self : self[i] # << >>

\* C1: for both widths, every base B >= 2 and every lane x >= 1, the checked
\* ilog_const_base::<B> returns for the lane the k with B^k <= x < B^(k+1),
\* whichever of the three paths is taken.
C1_ilog_const_base_exact ==
  (fn = "ilog_const_base" /\ Le(<<2>>, const) /\ NoZeroLane) =>
    /\ ret.kind = "ok"
    /\ \A i \in DOMAIN self : ret.val[i] = N(Ilog(self[i], const))

\* base 4, lane 2^31 of 32 bits: the call returns 16, and 4^16 = 2^32 > 2^31
C1_failing_call ==
  /\ fn = "ilog_const_base"
  /\ width = 32
  /\ const = <<4>>
  /\ ret.kind = "ok"
  /\ \E i \in DOMAIN self : self[i] = Pow2(31) /\ ret.val[i] = N(16)

\* C2: power-boundary law: for every valid base B and every k with B^k
\* representable in the lane, ilog_const_base::<B>(B^k) = k, and for k >= 1
\* ilog_const_base::<B>(B^k - 1) = k - 1.
C2_power_boundary_law ==
  (fn = "ilog_const_base" /\ Le(<<2>>, const) /\ NoZeroLane) =>
    \A i \in DOMAIN self : \A k \in 0..Ilog(UMAX(width), const) :
      /\ self[i] = Pow(const, k) => (ret.kind = "ok" /\ ret.val[i] = N(k))
      /\ (k >= 1 /\ self[i] = Sub(Pow(const, k), <<1>>))
           => (ret.kind = "ok" /\ ret.val[i] = N(k - 1))

\* base 8, lane 8 = 8^1 of 64 bits, without overflow checks: the call
\* returns 12
C2_failing_call ==
  /\ fn = "ilog_const_base"
  /\ width = 64
  /\ const = <<8>>
  /\ ~overflow_checks
  /\ ret.kind = "ok"
  /\ \E i \in DOMAIN self : self[i] = <<8>> /\ ret.val[i] = N(12)

\* C3: composition law: for every constant C >= 2 (C = 2 included) and every
\* lane x >= 1, ipow_const_coeff::<C>(ilog_const_base::<C>(x)) <= x.
C3_power_of_log_no_overshoot ==
  (fn = "ipow_const_coeff" /\ log_of # << >> /\ Le(<<2>>, const)) =>
    /\ ret.kind = "ok"
    /\ \A i \in DOMAIN log_of : Le(ret.val[i], log_of[i])

\* constant 2, lane 1: the logarithm is 0 and its power is 2 << 0 = 2 > 1
C3_failing_call ==
  /\ fn = "ipow_const_coeff"
  /\ const = <<2>>
  /\ log_of # << >>
  /\ ret.kind = "ok"
  /\ \E i \in DOMAIN log_of :
       log_of[i] = <<1>> /\ self[i] = << >> /\ ret.val[i] = <<2>>

\* C4: for every coefficient C >= 3, both widths and every lane e with C^e
\* representable in the lane (the largest such e included),
\* ipow_const_coeff::<C> returns exactly C^e for the lane.
C4_ipow_const_coeff_exact ==
  (fn = "ipow_const_coeff" /\ Le(<<3>>, const)) =>
    \A i \in DOMAIN self :
      Le(self[i], N(Ilog(UMAX(width), const)))
        => (ret.kind = "ok" /\ ret.val[i] = Pow(const, ToInt(self[i])))

\* coefficient 15, lane 8 of 32 bits: 15^8 fits the lane and the call
\* returns 1
C4_failing_call ==
  /\ fn = "ipow_const_coeff"
  /\ width = 32
  /\ const = N(15)
  /\ ret.kind = "ok"
  /\ \E i \in DOMAIN self : self[i] = <<8>> /\ ret.val[i] = <<1>>

\* C5: the checked ilog_const_base::<B>(v) fails the whole call with
\* 'invalid input: 0' when a lane of v is 0 and with 'invalid base' when B
\* is 0 or 1; when all lanes are >= 1 and B >= 2 it raises no violation and
\* returns a full result vector.
C5_contract_violations ==
  fn = "ilog_const_base" =>
    /\ ~NoZeroLane => ret = Panic("invalid input: 0")
    /\ (NoZeroLane /\ Lt(const, <<2>>)) => ret = Panic("invalid base")
    /\ (NoZeroLane /\ Le(<<2>>, const)) => (ret.kind = "ok" /\ Len(ret.val) = LANES)

\* base 3 on 64-bit lanes that are all >= 1, with overflow checks: the
\* call panics
C5_failing_call ==
  /\ fn = "ilog_const_base"
  /\ width = 64
  /\ const = <<3>>
  /\ overflow_checks
  /\ NoZeroLane
  /\ ret = Panic("attempt to multiply with overflow")

\* C6: base-2 path: for both widths and every lane x >= 1,
\* ilog_const_base_unchecked::<2> returns floor(log2(x)): the k with
\* 2^k <= x < 2^(k+1); lanes above the clamp safe_conv_max and at most
\* 2^(W-1) - 1 yield W - 2, and lanes x >= 2^(W-1) yield W - 1.
C6_base_two_exact ==
  (fn = "ilog_const_base_unchecked" /\ const = <<2>>) =>
    /\ ret.kind = "ok"
    /\ \A i \in DOMAIN self :
         self[i] # << >> =>
           /\ \E k \in 0..(width - 1) :
                ret.val[i] = N(k) /\ Le(Pow2(k), self[i]) /\ Lt(self[i], Pow2(k + 1))
           /\ (Lt(safe_conv_max(width), self[i]) /\ Le(self[i], SMAX(width)))
                => ret.val[i] = N(width - 2)
           /\ Le(Pow2(width - 1), self[i]) => ret.val[i] = N(width - 1)

\* a lane 2^(W-1) - 1, which the conversion to float rounds up to 2^(W-1),
\* has the logarithm W - 2
C6_witness ==
  /\ fn = "ilog_const_base_unchecked"
  /\ const = <<2>>
  /\ width = 64
  /\ ret.kind = "ok"
  /\ \E i \in DOMAIN self : self[i] = SMAX(64) /\ ret.val[i] = N(62)

\* C7: for every base B in 3..7, both widths and every lane x >= 1, the
\* estimate e of ilog_const_base_fast_approx satisfies
\* floor(log_B(x)) <= e <= floor(log_B(x)) + 1.
C7_estimate_within_one ==
  (fn = "ilog_const_base_fast_approx" /\ Le(<<3>>, const) /\ Le(const, <<7>>)) =>
    /\ ret.kind = "ok"
    /\ \A i \in DOMAIN self :
         self[i] # << >> =>
           /\ Le(N(Ilog(self[i], const)), ret.val[i])
           /\ Le(ret.val[i], N(Ilog(self[i], const) + 1))

\* an estimate that overshoots by one: base 4, lane 2^31, estimate 16
C7_witness ==
  /\ fn = "ilog_const_base_fast_approx"
  /\ const = <<4>>
  /\ width = 32
  /\ ret.kind = "ok"
  /\ \E i \in DOMAIN self : self[i] = Pow2(31) /\ ret.val[i] = N(16)

\* C8: comparison ladder: for every base B >= 8, both widths and every lane
\* x >= 1, ilog_const_base_unchecked::<B> returns the number of exponents i
\* in 1..=max_unsigned with x >= B^i, B^i being the true power.
C8_ladder_exact ==
  (fn = "ilog_const_base_unchecked" /\ Le(<<8>>, const)) =>
    /\ ret.kind = "ok"
    /\ \A i \in DOMAIN self :
         self[i] # << >> =>
           ret.val[i] = N(Cardinality({k \in 1..Ilog(UMAX(width), const) :
                                         Le(Pow(const, k), self[i])}))

\* base 10, lane 10^18 of 64 bits, without overflow checks: the call
\* returns 19
C8_failing_call ==
  /\ fn = "ilog_const_base_unchecked"
  /\ width = 64
  /\ const = N(10)
  /\ ~overflow_checks
  /\ ret.kind = "ok"
  /\ \E i \in DOMAIN self : self[i] = Pow(N(10), 18) /\ ret.val[i] = N(19)

\* the special cases C = 0 and C = 1 of ipow_const_coeff
pow_zero_and_one ==
  /\ const = << >> =>
       ret = Ok([i \in DOMAIN self |-> IF self[i] = << >> THEN <<1>> ELSE << >>])
  /\ const = <<1>> => ret = Ok([i \in DOMAIN self |-> <<1>>])

\* C9 as stated: for every lane x, ipow_const_coeff::<0> returns 1 if x = 0
\* and 0 otherwise, ipow_const_coeff::<1> returns 1, and
\* ipow_const_coeff::<2> returns 2^(x+1) modulo 2^W.
C9_special_cases_as_stated ==
  fn = "ipow_const_coeff" =>
    /\ pow_zero_and_one
    /\ const = <<2>> =>
         /\ ret.kind = "ok"
         /\ \A i \in DOMAIN self :
              ret.val[i] = IF Lt(self[i], N(width))
                           THEN ModPow2(Pow2(ToInt(self[i]) + 1), width)
                           ELSE << >>

\* C9 amended: as stated for C = 0 and C = 1; ipow_const_coeff::<2> returns
\* 2^((x mod W) + 1) modulo 2^W: the shift amount is taken modulo the width,
\* which is 2^(x+1) modulo 2^W for the lanes x < W only.
C9_special_cases_shift_wraps ==
  fn = "ipow_const_coeff" =>
    /\ pow_zero_and_one
    /\ const = <<2>> =>
         /\ ret.kind = "ok"
         /\ \A i \in DOMAIN self :
              \E k \in 0..(width - 1) :
                /\ ModPow2(Add(self[i], N(width - k)), IntBitLen(width) - 1) = << >>
                /\ ret.val[i] = ModPow2(Pow2(k + 1), width)

\* the lane x = W, where 2^(x+1) modulo 2^W is 0 and the call returns 2
C9_witness ==
  /\ fn = "ipow_const_coeff"
  /\ const = <<2>>
  /\ ret.kind = "ok"
  /\ \E i \in DOMAIN self : self[i] = N(width) /\ ret.val[i] = <<2>>

\* C10: for every base >= 2 and every numerator, get_multiplier makes
\* exactly floor(log2(base)) range-reduction shifts (x being base * 2^32
\* shifted right once per reduction) and then exactly 32 refinement
\* iterations; 2^32 <= z < 2^33 at the start of each iteration; result is
\* >= 2^32 at the final division, which does not divide by zero.  For base
\* 0 and 1 result is 0 and the final division divides by zero.
C10_get_multiplier_loops ==
  fn = "get_multiplier" =>
    /\ gm.pc = "reduce" =>
         /\ gm.x = ShrNat(ShlNat(const, PRECISION), gm.reductions)
         /\ gm.refinements = 0
    /\ (gm.pc \in {"refine", "done"} /\ Le(<<2>>, const)) =>
         gm.reductions = BitLen(const) - 1
    /\ (gm.pc = "refine" /\ Le(<<2>>, const)) =>
         /\ Le(Pow2(PRECISION), gm.z) /\ Lt(gm.z, Pow2(PRECISION + 1))
         /\ gm.refinements <= PRECISION
         /\ gm.b = << >> <=> gm.refinements = PRECISION
    /\ (gm.pc = "done" /\ Le(<<2>>, const)) =>
         /\ gm.refinements = PRECISION
         /\ Le(Pow2(PRECISION), gm.result)
         /\ ret.kind = "ok"
    /\ (gm.pc = "done" /\ Lt(const, <<2>>)) =>
         /\ gm.result = << >>
         /\ ret = Panic("attempt to divide by zero")

\* get_multiplier returned for base 2^31 after 31 reductions and 32
\* refinements
C10_witness ==
  /\ fn = "get_multiplier"
  /\ gm.pc = "done"
  /\ const = Pow2(31)
  /\ gm.reductions = 31
  /\ gm.refinements = 32
  /\ ret.kind = "ok"

====
